---- MODULE Spec2Model ----
(***************************************************************************)
(* Uptime ledger of the CSCT status monitor.                               *)
(*                                                                         *)
(* The ledger engine is computeDurations(prevStatus, now, isOnline); the   *)
(* same body appears in ping_csct.js and in every front-end that records   *)
(* downtime incidents.  A cycle reads the stored ledger, probes, applies   *)
(* computeDurations once and writes the result back.                       *)
(*                                                                         *)
(* Representation.                                                         *)
(*   - A Date is its time value, an integer number of milliseconds.        *)
(*   - An ISO string is the pair <<seconds, milliseconds>> produced by     *)
(*     toISOString and read back by getTime; null is the empty tuple.      *)
(*   - deltaSeconds, currentStreakSeconds, totalUpSeconds and              *)
(*     totalDownSeconds are (ms / 1000) in the source; the model keeps     *)
(*     them exactly, as integer thousandths of a second.  An incident's    *)
(*     duration is Math.round of it, in whole seconds.                     *)
(*   - A ledger is a function from field names to values, so that absent   *)
(*     fields, the spread {...prevStatus} and `|| 0` are modelled as such. *)
(***************************************************************************)
EXTENDS Integers, Sequences, FiniteSets, TLC

\* ---------------------------------------------------------------- bounds
\* calls explored after the scheduled runs
MaxCalls == 3
\* scheduled runs of the flapping host
MaxPrefix == 22
\* time of the first scheduled run, in ms
T0 == 1000
\* ms between two scheduled runs
PrefixStep == 1000
\* offsets of `now` from the previous check, in ms (negative: clock skew)
Deltas == {-500, 0, 300, 500, 1000}
\* how far Date.now() may advance between two calls, in ms
Ticks == {0, 1}
\* runs of a node script
MaxCycles == 3
\* ms between two runs of a node script
RunSteps == {0, 500, 1000}
\* connect latencies measured by the TCP probe, in ms
Latencies == {0, 12}
\* HTTP status codes answered to the HTTPS probe
Codes == {199, 200, 499, 500}
\* err.message of a socket or request error (possibly empty)
Messages == {"", "ECONNREFUSED"}

\* ------------------------------------------------------ program constants
\* (now.getTime() - lastChecked.getTime()) / 1000
MsPerSecond == 1000
\* .slice(0, 9): entries of the previous list kept behind a new incident
KeepPrevious == 9

\* ------------------------------------------------------------- JS helpers
NULL == <<>>

\* variant: no clamp, the difference is used as it is
Unclamped(a, b) == b

\* Math.max
Max(a, b) == IF a >= b THEN a ELSE b

\* Date.prototype.toISOString, to millisecond precision
toISOString(t) == <<t \div 1000, t % 1000>>

\* new Date(iso).getTime()
getTime(iso) == iso[1] * 1000 + iso[2]

\* a stored string that is not a date
Unparseable == <<"not a date">>

\* Number.isNaN(new Date(iso).getTime())
IsNaNDate(iso) == Len(iso) # 2

\* variant: Math.floor
MathFloor(x) == x \div 1000

\* Math.round on a value given in thousandths: nearest integer, halves up
MathRound(x) == (x + 500) \div 1000

\* obj.field, undefined (NULL) when the field is absent
Get(obj, f) == IF f \in DOMAIN obj THEN obj[f] ELSE NULL

\* (obj.field || 0) for a numeric field
OrZero(obj, f) == IF f \in DOMAIN obj THEN obj[f] ELSE 0

\* (obj.field || []) for a list field
OrEmpty(obj, f) == IF f \in DOMAIN obj THEN obj[f] ELSE <<>>

\* obj.field = v on a copy of obj
Put(obj, f, v) == (f :> v) @@ obj

\* ------------------------------------------------------------ the ledger
\* readStatusFile: the default structure when status.json is absent
DefaultStatus ==
  [lastOnline |-> NULL,
   lastStatus |-> "unknown",
   lastStatusChange |-> NULL,
   currentStreakSeconds |-> 0,
   totalUpSeconds |-> 0,
   totalDownSeconds |-> 0,
   lastChecked |-> NULL,
   downtimeIncidents |-> <<>>,
   totalOutages |-> 0]

\* ------------------------------------------------------ computeDurations
\* variant: the elapsed time is measured from the last status change
DeltaSinceStatusChange(prevStatus, now) ==
  IF Get(prevStatus, "lastStatusChange") # NULL
    THEN Max(0, now - getTime(prevStatus.lastStatusChange))
    ELSE 0

\* variant: no null check, new Date(null) is the epoch
DeltaFromEpoch(prevStatus, now) ==
  Max(0, now - (IF Get(prevStatus, "lastChecked") # NULL
                  THEN getTime(prevStatus.lastChecked) ELSE 0))

\* lines 46-53: elapsed time since the previous check, clamped at zero
DeltaSeconds(prevStatus, now) ==
  IF Get(prevStatus, "lastChecked") # NULL
     /\ ~IsNaNDate(prevStatus.lastChecked)
    THEN Max(0, now - getTime(prevStatus.lastChecked))
    ELSE 0

\* variant: the two counters are swapped
AccumulateSwapped(updated, prevStatus, deltaSeconds) ==
  IF Get(prevStatus, "lastStatus") = "online"
    THEN Put(updated, "totalDownSeconds",
             OrZero(prevStatus, "totalDownSeconds") + deltaSeconds)
  ELSE IF Get(prevStatus, "lastStatus") = "offline"
    THEN Put(updated, "totalUpSeconds",
             OrZero(prevStatus, "totalUpSeconds") + deltaSeconds)
  ELSE updated

\* lines 55-60: the delta is added to the counter of the previous status
Accumulate(updated, prevStatus, deltaSeconds) ==
  IF Get(prevStatus, "lastStatus") = "online"
    THEN Put(updated, "totalUpSeconds",
             OrZero(prevStatus, "totalUpSeconds") + deltaSeconds)
  ELSE IF Get(prevStatus, "lastStatus") = "offline"
    THEN Put(updated, "totalDownSeconds",
             OrZero(prevStatus, "totalDownSeconds") + deltaSeconds)
  ELSE updated

\* line 62
NewStatus(isOnline) == IF isOnline THEN "online" ELSE "offline"

\* variant: the outage is measured from the previous check
DowntimeSinceCheck(prevStatus, now) ==
  Max(0, now - getTime(prevStatus.lastChecked))

\* line 74: length of the outage that ends now
DowntimeDuration(prevStatus, now) ==
  Max(0, now - getTime(prevStatus.lastStatusChange))

\* variant: the duration is not required to be positive
RecordsIncidentAnyDuration(prevStatus, now, isOnline) ==
  /\ isOnline
  /\ Get(prevStatus, "lastStatus") = "offline"
  /\ Get(prevStatus, "lastStatusChange") # NULL

\* lines 72-76: is a downtime incident recorded by this call; for an
\* unparseable lastStatusChange downtimeDuration is NaN and NaN > 0 is false
RecordsIncident(prevStatus, now, isOnline) ==
  /\ isOnline
  /\ Get(prevStatus, "lastStatus") = "offline"
  /\ Get(prevStatus, "lastStatusChange") # NULL
  /\ ~IsNaNDate(prevStatus.lastStatusChange)
  /\ DowntimeDuration(prevStatus, now) > 0

\* lines 77-82
Incident(prevStatus, now, dateNow) ==
  [startTime |-> prevStatus.lastStatusChange,
   endTime |-> toISOString(now),
   duration |-> MathRound(DowntimeDuration(prevStatus, now)),
   id |-> dateNow]

\* Array.prototype.slice(0, n)
Slice(list, n) == SubSeq(list, 1, IF Len(list) < n THEN Len(list) ELSE n)

\* variant: slice(0, 10)
PrependKeepsTen(incident, previous) ==
  <<incident>> \o Slice(previous, KeepPrevious + 1)

\* variant: the new incident is pushed at the end
AppendIncident(incident, previous) ==
  Slice(previous, KeepPrevious) \o <<incident>>

\* lines 85-88: the new incident in front of the first 9 previous ones
PrependIncident(incident, previous) ==
  <<incident>> \o Slice(previous, KeepPrevious)

\* variant: the counter is not incremented
OutagesNotCounted(totalOutages) == totalOutages

\* line 90
IncrementOutages(totalOutages) == totalOutages + 1

\* lines 71-92: bookkeeping of a recovery
RecordIncident(updated, prevStatus, now, isOnline, dateNow) ==
  IF RecordsIncident(prevStatus, now, isOnline)
    THEN Put(Put(updated, "downtimeIncidents",
                 PrependIncident(Incident(prevStatus, now, dateNow),
                                 OrEmpty(prevStatus, "downtimeIncidents"))),
             "totalOutages",
             IncrementOutages(OrZero(prevStatus, "totalOutages")))
    ELSE updated

\* variant: newStatus is compared with the ledger object, never equal to it
StatusChangedVsLedger(prevStatus, isOnline) == TRUE

\* line 67: does the observation differ from the previous status
StatusChanged(prevStatus, isOnline) ==
  NewStatus(isOnline) # Get(prevStatus, "lastStatus")

\* variant: the delta is not added to the streak
StreakWithoutDelta(prevStatus, deltaSeconds) ==
  OrZero(prevStatus, "currentStreakSeconds")

\* lines 96-97: the streak of an unchanged status
GrownStreak(prevStatus, deltaSeconds) ==
  OrZero(prevStatus, "currentStreakSeconds") + deltaSeconds

\* variant: a status change leaves the streak running
KeepStreak(updated, prevStatus, now, isOnline, deltaSeconds, dateNow) ==
  IF StatusChanged(prevStatus, isOnline)
    THEN Put(RecordIncident(
               Put(Put(updated, "lastStatus", NewStatus(isOnline)),
                   "lastStatusChange", toISOString(now)),
               prevStatus, now, isOnline, dateNow),
             "currentStreakSeconds", GrownStreak(prevStatus, deltaSeconds))
    ELSE Put(updated, "currentStreakSeconds",
             GrownStreak(prevStatus, deltaSeconds))

\* lines 66-98: a status change resets streak and timestamp
Transition(updated, prevStatus, now, isOnline, deltaSeconds, dateNow) ==
  IF StatusChanged(prevStatus, isOnline)
    THEN Put(RecordIncident(
               Put(Put(updated, "lastStatus", NewStatus(isOnline)),
                   "lastStatusChange", toISOString(now)),
               prevStatus, now, isOnline, dateNow),
             "currentStreakSeconds", 0)
    ELSE Put(updated, "currentStreakSeconds",
             GrownStreak(prevStatus, deltaSeconds))

\* variant: lastOnline is written whatever the observation
LastOnlineAlways(updated, now, isOnline) ==
  Put(updated, "lastOnline", toISOString(now))

\* variant: lastOnline is written only when a streak starts
LastOnlineOnChange(updated, now, isOnline) ==
  IF isOnline /\ updated.currentStreakSeconds = 0
    THEN Put(updated, "lastOnline", toISOString(now))
    ELSE updated

\* lines 100-102
LastOnlineAfter(updated, now, isOnline) ==
  IF isOnline THEN Put(updated, "lastOnline", toISOString(now)) ELSE updated

\* variant: absent fields stay absent
ArraysAsFound(updated) == updated

\* lines 104-106
EnsureArrays(updated) ==
  Put(Put(updated, "downtimeIncidents", OrEmpty(updated, "downtimeIncidents")),
      "totalOutages", OrZero(updated, "totalOutages"))

\* variant: updated is the argument itself, not a copy of it
ArgumentAliased(prevStatus, updated) == updated

\* line 43: updated is a copy ({ ...prevStatus }) and lines 57-108 assign to
\* the copy only, the incident list is a new array (lines 85-88); this is the
\* argument object as the caller sees it after the call
ArgumentAfter(prevStatus, updated) == prevStatus

\* lines 42-110; dateNow is the value Date.now() returns during the call
computeDurations(prevStatus, now, isOnline, dateNow) ==
  LET deltaSeconds == DeltaSeconds(prevStatus, now)
      accumulated == Accumulate(prevStatus, prevStatus, deltaSeconds)
      changed == Transition(accumulated, prevStatus, now, isOnline,
                            deltaSeconds, dateNow)
      seen == LastOnlineAfter(changed, now, isOnline)
  IN Put(EnsureArrays(seen), "lastChecked", toISOString(now))

\* TIMEOUT_MS of the node scripts, the 5000 of the front-end probers
TIMEOUT_MS == 5000

\* probes started one after the other
MaxProbes == 2

\* how long a probe is followed, in ms
MaxElapsed == 10000

\* the time that passes between two events of a probe, in ms
TimeSteps == {2500}

\* requests the test-connection server is followed for
MaxRequests == 2

\* ----------------------------------------------------------------- state
VARIABLES
  status,        \* the ledger held in status.json
  prevStatus,    \* the ledger the last call was given
  call,          \* the last call: [now, isOnline, deltaSeconds], or NoCall
  firstNow,      \* `now` of the first call ever applied, or NULL
  sumDeltas,     \* sum of deltaSeconds over all calls
  allIncidents,  \* every incident ever recorded, most recent first
  ordered,       \* no call so far had `now` before the previous check
  wallClock,     \* Date.now()
  span,          \* <<earliest, latest>> `now` applied so far, or NULL
  returned,      \* the ledger the last call returned
  argAfter,      \* the object passed to the last call, after the call
  whole,         \* every call so far had a whole number of seconds as `now`
  runs,          \* scheduled runs done
  remaining,     \* calls still to be explored
  node,          \* the node process running ping_csct.js
  store,         \* status.json as found by a run of ping_csct.js
  page,          \* a browser tab showing the status page
  probe,         \* a probe of the target, from start to settled promise
  server         \* the test-connection server and the requests it has received

engineVars == <<status, prevStatus, call, firstNow, sumDeltas, allIncidents,
                ordered, wallClock, span, returned, argAfter, whole>>

exploreVars == <<runs, remaining>>

hostVars == <<node, store, page, probe, server>>

vars == <<engineVars, exploreVars, hostVars>>

NoCall == [now |-> -1, isOnline |-> FALSE, deltaSeconds |-> 0]

\* the value a pending promise holds
NoObservation == [online |-> FALSE, latency |-> NULL, error |-> NULL]

\* no node process is running
IdleNode ==
  [program |-> "https", pc |-> "idle", now |-> 0, prevStatus |-> DefaultStatus,
   settled |-> FALSE, observation |-> NoObservation, resolveCalls |-> 0,
   destroyed |-> FALSE, errorQueued |-> NULL, answered |-> FALSE,
   timedOut |-> FALSE, code |-> NULL, cycles |-> 0]

\* a JavaScript value read from the store: null, or an object
JsNull == [type |-> "null", fields |-> DefaultStatus]

JsObject(fields) == [type |-> "object", fields |-> fields]

\* status.json is not looked at
IdleStore ==
  [raw |-> [kind |-> "absent", value |-> JsNull], pc |-> "ready",
   prevStatus |-> JsNull, now |-> 0, isOnline |-> FALSE, deltaSeconds |-> 0,
   recorded |-> FALSE, runs |-> 0]

\* is-csct.status.js lines 39-49: getDefaultStatus of the page without
\* incident tracking
LegacyDefault ==
  [lastOnline |-> NULL,
   lastStatus |-> "unknown",
   lastStatusChange |-> NULL,
   currentStreakSeconds |-> 0,
   totalUpSeconds |-> 0,
   totalDownSeconds |-> 0,
   lastChecked |-> NULL]

\* no checkServerStatus call is awaiting its probe
NoCycle == [pc |-> "idle", now |-> 0, prevStatus |-> LegacyDefault]

\* what the last finished checkServerStatus call did
NothingDone ==
  [trigger |-> "none", succeeded |-> FALSE, applied |-> 0, saved |-> 0,
   rejected |-> FALSE, overlapped |-> FALSE, loaded |-> LegacyDefault,
   before |-> LegacyDefault, ledger |-> LegacyDefault]

\* no tab is open and localStorage has no item under the storage key
IdlePage ==
  [kind |-> "static", hasSection |-> FALSE, pc |-> "loading", item |-> NULL,
   cycles |-> [timer |-> NoCycle, refresh |-> NoCycle], started |-> 0,
   completed |-> 0, last |-> NothingDone, snapshot |-> "none"]

\* no probe has been started
IdleProbe ==
  [kind |-> "https", started |-> FALSE, phase |-> "first", elapsed |-> 0,
   deadline |-> NULL, attempt |-> "none", settled |-> FALSE,
   observation |-> NoObservation, resolveCalls |-> 0, destroyed |-> FALSE,
   errorQueued |-> NULL, closeQueued |-> FALSE, answered |-> FALSE,
   timedOut |-> FALSE, probes |-> 0]

\* the server listens and no request has arrived
IdleServer == [requests |-> <<>>]

HostsIdle ==
  /\ node = IdleNode
  /\ store = IdleStore
  /\ page = IdlePage
  /\ probe = IdleProbe
  /\ server = IdleServer

\* the state before any run: status.json does not exist
Fresh ==
  [status |-> DefaultStatus, prevStatus |-> DefaultStatus, call |-> NoCall,
   firstNow |-> NULL, sumDeltas |-> 0, allIncidents |-> <<>>,
   ordered |-> TRUE, wallClock |-> T0, span |-> NULL,
   returned |-> DefaultStatus, argAfter |-> DefaultStatus, whole |-> TRUE]

\* main: one cycle (read the ledger, apply the observation, write it back)
Cycle(st, now, isOnline, dateNow) ==
  LET next == computeDurations(st.status, now, isOnline, dateNow)
      delta == DeltaSeconds(st.status, now)
  IN [status |-> next,
      prevStatus |-> st.status,
      call |-> [now |-> now, isOnline |-> isOnline, deltaSeconds |-> delta],
      firstNow |-> IF st.firstNow = NULL THEN toISOString(now) ELSE st.firstNow,
      sumDeltas |-> st.sumDeltas + delta,
      allIncidents |->
        IF RecordsIncident(st.status, now, isOnline)
          THEN <<Incident(st.status, now, dateNow)>> \o st.allIncidents
          ELSE st.allIncidents,
      ordered |-> st.ordered /\ (st.status.lastChecked = NULL
                                 \/ now >= getTime(st.status.lastChecked)),
      wallClock |-> dateNow,
      span |-> IF st.span = NULL THEN <<now, now>>
               ELSE <<IF now < st.span[1] THEN now ELSE st.span[1],
                      IF now > st.span[2] THEN now ELSE st.span[2]>>,
      returned |-> next,
      argAfter |-> ArgumentAfter(st.status, next),
      whole |-> st.whole /\ now % MsPerSecond = 0]

Init ==
  /\ status = Fresh.status
  /\ prevStatus = Fresh.prevStatus
  /\ call = Fresh.call
  /\ firstNow = Fresh.firstNow
  /\ sumDeltas = Fresh.sumDeltas
  /\ allIncidents = Fresh.allIncidents
  /\ ordered = Fresh.ordered
  /\ wallClock = Fresh.wallClock
  /\ span = Fresh.span
  /\ returned = Fresh.returned
  /\ argAfter = Fresh.argAfter
  /\ whole = Fresh.whole
  /\ runs = 0
  /\ remaining = MaxCalls
  /\ HostsIdle

Current ==
  [status |-> status, prevStatus |-> prevStatus, call |-> call,
   firstNow |-> firstNow, sumDeltas |-> sumDeltas,
   allIncidents |-> allIncidents, ordered |-> ordered,
   wallClock |-> wallClock, span |-> span, returned |-> returned,
   argAfter |-> argAfter, whole |-> whole]

Becomes(st) ==
  /\ status' = st.status
  /\ prevStatus' = st.prevStatus
  /\ call' = st.call
  /\ firstNow' = st.firstNow
  /\ sumDeltas' = st.sumDeltas
  /\ allIncidents' = st.allIncidents
  /\ ordered' = st.ordered
  /\ wallClock' = st.wallClock
  /\ span' = st.span
  /\ returned' = st.returned
  /\ argAfter' = st.argAfter
  /\ whole' = st.whole

\* the time of the previous check, T0 before the first one
LastCheckedTime ==
  IF status.lastChecked = NULL THEN T0 ELSE getTime(status.lastChecked)

\* a scheduled run of main, PrefixStep after the previous check, that finds
\* the host flapping: down when it was up or unknown, up when it was down.
\* The scheduled history precedes the calls explored freely.
ScheduledRun ==
  /\ runs < MaxPrefix
  /\ remaining = MaxCalls
  /\ LET now == IF status.lastChecked = NULL THEN T0
                ELSE LastCheckedTime + PrefixStep
     IN Becomes(Cycle(Current, now, status.lastStatus = "offline", now))
  /\ runs' = runs + 1
  /\ UNCHANGED remaining
  /\ UNCHANGED hostVars

\* one cycle with an arbitrary `now`, observation and Date.now()
Apply ==
  /\ remaining > 0
  /\ \E d \in Deltas, isOnline \in BOOLEAN, tick \in Ticks :
       /\ LastCheckedTime + d >= 0
       /\ Becomes(Cycle(Current, LastCheckedTime + d, isOnline,
                        wallClock + tick))
  /\ remaining' = remaining - 1
  /\ UNCHANGED runs
  /\ UNCHANGED hostVars

Next == ScheduledRun \/ Apply

Spec == Init /\ [][Next]_vars

\* ------------------------------------------------------------ properties
Called == call # NoCall

\* the status observed by the last call
Observed == IF call.isOnline THEN "online" ELSE "offline"

\* the last call changed the status
Changed == Observed # prevStatus.lastStatus

\* `now` of the last call as stored in the ledger
NowIso == <<call.now \div 1000, call.now % 1000>>

\* time elapsed between the previous check and the last call, in ms
Elapsed ==
  IF prevStatus.lastChecked = NULL THEN 0
  ELSE IF call.now >= getTime(prevStatus.lastChecked)
    THEN call.now - getTime(prevStatus.lastChecked)
    ELSE 0

Total(l) == l.totalUpSeconds + l.totalDownSeconds

\* the last call was a recovery after a measurable outage
Recovered ==
  /\ Called
  /\ prevStatus.lastStatus = "offline"
  /\ call.isOnline
  /\ prevStatus.lastStatusChange # NULL
  /\ call.now > getTime(prevStatus.lastStatusChange)

\* C1: with non-decreasing timestamps, totalUpSeconds + totalDownSeconds is
\* the sum of the deltas applied so far, which is lastChecked minus the time
\* of the first call, and it never decreases.
C1_TotalsEqualElapsed ==
  /\ [](ordered =>
         /\ Total(status) = sumDeltas
         /\ status.lastChecked # NULL =>
              Total(status) = getTime(status.lastChecked) - getTime(firstNow))
  /\ [][ordered' => Total(status') >= Total(status)]_vars

C1_Witness ==
  /\ ordered
  /\ remaining = 0
  /\ status.totalUpSeconds > 0
  /\ status.totalDownSeconds > 0
  /\ call.deltaSeconds > 0

\* C2: a call prepends an incident and increments totalOutages if and only
\* if the previous status is offline, the observation is online,
\* lastStatusChange is present and now is strictly later than it; any other
\* call leaves downtimeIncidents and totalOutages as they were.
C2_IncidentIff ==
  Called =>
    IF Recovered
      THEN /\ status.totalOutages = prevStatus.totalOutages + 1
           /\ Len(status.downtimeIncidents) >= 1
           /\ status.downtimeIncidents[1].endTime = NowIso
           /\ Tail(status.downtimeIncidents)
                = SubSeq(prevStatus.downtimeIncidents, 1,
                         Len(status.downtimeIncidents) - 1)
      ELSE /\ status.totalOutages = prevStatus.totalOutages
           /\ status.downtimeIncidents = prevStatus.downtimeIncidents

\* an offline ledger is told the host is up at the very time it went down
C2_Witness ==
  /\ Called
  /\ prevStatus.lastStatus = "offline"
  /\ call.isOnline
  /\ call.now = getTime(prevStatus.lastStatusChange)
  /\ Len(status.downtimeIncidents) > 0

\* C3: downtimeIncidents has at most 10 entries, they are the 10 most
\* recently recorded incidents (all of them when fewer were recorded), and
\* totalOutages counts every incident ever recorded.
C3_TenMostRecent ==
  /\ Len(status.downtimeIncidents) <= 10
  /\ status.downtimeIncidents
       = SubSeq(allIncidents, 1,
                IF Len(allIncidents) < 10 THEN Len(allIncidents) ELSE 10)
  /\ status.totalOutages = Len(allIncidents)

C3_Witness ==
  /\ Len(allIncidents) > 10
  /\ Recovered
  /\ remaining < MaxCalls

\* C4: totalOutages is at least the length of downtimeIncidents.
C4_OutagesAtLeastListed ==
  status.totalOutages >= Len(status.downtimeIncidents)

C4_Witness ==
  /\ status.totalOutages > Len(status.downtimeIncidents)
  /\ Recovered

\* C5: with non-decreasing timestamps, every incident of the list ends
\* strictly later than the next one, and does not start before the next
\* one ended.
C5_MostRecentFirst ==
  ordered =>
    \A i \in 1..(Len(status.downtimeIncidents) - 1) :
      /\ getTime(status.downtimeIncidents[i].endTime)
           > getTime(status.downtimeIncidents[i + 1].endTime)
      /\ getTime(status.downtimeIncidents[i].startTime)
           >= getTime(status.downtimeIncidents[i + 1].endTime)

C5_Witness ==
  /\ ordered
  /\ Recovered
  /\ remaining < MaxCalls
  /\ Len(status.downtimeIncidents) >= 2
  /\ status.downtimeIncidents[1].startTime
       = status.downtimeIncidents[2].endTime

\* C6: currentStreakSeconds is 0 after a call that changes the status;
\* otherwise it is the previous streak plus deltaSeconds, never smaller.
C6_StreakResetOrGrows ==
  Called =>
    IF Changed
      THEN status.currentStreakSeconds = 0
      ELSE /\ status.currentStreakSeconds
                = prevStatus.currentStreakSeconds + Elapsed
           /\ status.currentStreakSeconds >= prevStatus.currentStreakSeconds

C6_Witness ==
  /\ Called
  /\ Changed
  /\ prevStatus.currentStreakSeconds > 0
  /\ Elapsed > 0

\* C7: lastStatusChange is now after a call that changes the status, and
\* is the previous lastStatusChange otherwise.
C7_StatusChangeOnlyOnChange ==
  Called =>
    status.lastStatusChange
      = IF Changed THEN NowIso ELSE prevStatus.lastStatusChange

C7_Witness ==
  /\ Called
  /\ ~Changed
  /\ NowIso # prevStatus.lastStatusChange

\* C8: the delta is charged to the previous status whatever the new
\* observation: to totalUpSeconds alone if it was online, to
\* totalDownSeconds alone if it was offline, to neither if unknown.
C8_DeltaChargedToPrevious ==
  Called =>
    /\ status.totalUpSeconds
         = prevStatus.totalUpSeconds
           + (IF prevStatus.lastStatus = "online" THEN Elapsed ELSE 0)
    /\ status.totalDownSeconds
         = prevStatus.totalDownSeconds
           + (IF prevStatus.lastStatus = "offline" THEN Elapsed ELSE 0)

\* an online -> offline transition after some time
C8_Witness ==
  /\ Called
  /\ prevStatus.lastStatus = "online"
  /\ ~call.isOnline
  /\ Elapsed > 0
  /\ status.totalUpSeconds = prevStatus.totalUpSeconds + Elapsed

\* Scenarios 1-4 of the specification: online at T, online at T + 60 s,
\* offline at T + 120 s, online again at T + 180 s.
Scenario4 ==
  LET s1 == computeDurations(DefaultStatus, T0, TRUE, 1)
      s2 == computeDurations(s1, T0 + 60000, TRUE, 2)
      s3 == computeDurations(s2, T0 + 120000, FALSE, 3)
      s4 == computeDurations(s3, T0 + 180000, TRUE, 4)
  IN /\ s4.lastStatus = "online"
     /\ getTime(s4.lastStatusChange) = T0 + 180000
     /\ s4.totalUpSeconds = 120 * MsPerSecond
     /\ s4.totalDownSeconds = 60 * MsPerSecond
     /\ s4.totalOutages = 1
     /\ s4.currentStreakSeconds = 0
     /\ Len(s4.downtimeIncidents) = 1
     /\ getTime(s4.downtimeIncidents[1].startTime) = T0 + 120000
     /\ getTime(s4.downtimeIncidents[1].endTime) = T0 + 180000
     /\ s4.downtimeIncidents[1].duration = 60

\* C9: a recovery at now from an outage that began at S < now puts the
\* incident [S, now] with duration round(now - S) seconds at the head of the
\* list, adds 1 to totalOutages, sets lastStatusChange to now and the streak
\* to 0.
C9_RecoveryRecordsOutage ==
  /\ Scenario4
  /\ Recovered =>
       /\ Len(status.downtimeIncidents) >= 1
       /\ status.downtimeIncidents[1].startTime = prevStatus.lastStatusChange
       /\ status.downtimeIncidents[1].endTime = NowIso
       /\ \E n \in 0..((call.now \div 1000) + 1) :
            /\ status.downtimeIncidents[1].duration = n
            /\ 2 * (call.now - getTime(prevStatus.lastStatusChange))
                 >= 2000 * n - 1000
            /\ 2 * (call.now - getTime(prevStatus.lastStatusChange))
                 < 2000 * n + 1000
       /\ status.totalOutages = prevStatus.totalOutages + 1
       /\ status.lastStatusChange = NowIso
       /\ status.currentStreakSeconds = 0

\* a recovery after an outage of half a second
C9_Witness ==
  /\ Recovered
  /\ call.now - getTime(prevStatus.lastStatusChange) = 500
  /\ status.downtimeIncidents[1].duration = 1

\* C10: the first call on the default ledger uses a delta of 0 and records
\* nothing: the status is the observed one, lastStatusChange and lastChecked
\* are now, streak, totals and totalOutages are 0, downtimeIncidents is
\* empty, and lastOnline is now exactly when the observation is online.
C10_FirstCall ==
  (Called /\ prevStatus = DefaultStatus) =>
    /\ call.deltaSeconds = 0
    /\ status.lastStatus = Observed
    /\ status.lastStatusChange = NowIso
    /\ status.lastChecked = NowIso
    /\ status.currentStreakSeconds = 0
    /\ status.totalUpSeconds = 0
    /\ status.totalDownSeconds = 0
    /\ status.totalOutages = 0
    /\ status.downtimeIncidents = <<>>
    /\ status.lastOnline = (IF call.isOnline THEN NowIso ELSE NULL)

C10_Witness ==
  /\ Called
  /\ prevStatus = DefaultStatus
  /\ call.isOnline
  /\ status.lastOnline = NowIso
  /\ remaining = MaxCalls - 1

\* the last call repeated the call before it: same now, same observation
Repeated ==
  /\ Called
  /\ prevStatus.lastChecked = NowIso
  /\ prevStatus.lastStatus = Observed

\* C11: applying the same now and observation a second time, to the ledger
\* the first application returned, uses a delta of 0 and returns a ledger
\* equal to it in every field.
C11_RepeatChangesNothing ==
  Repeated =>
    /\ call.deltaSeconds = 0
    /\ status = prevStatus

\* a recovery applied twice records its incident once
C11_Witness ==
  /\ Repeated
  /\ call.isOnline
  /\ Len(status.downtimeIncidents) >= 1
  /\ status.downtimeIncidents[1].endTime = NowIso
  /\ status.totalOutages = 1

\* C12: a call whose now is not later than the previous check has a delta
\* of 0; whatever the order of the timestamps, totals and streak are never
\* negative, the totals never decrease and no incident has a negative
\* duration.
C12_ClampedAtZero ==
  /\ (Called /\ prevStatus.lastChecked # NULL
             /\ call.now <= getTime(prevStatus.lastChecked))
       => call.deltaSeconds = 0
  /\ status.totalUpSeconds >= 0
  /\ status.totalDownSeconds >= 0
  /\ status.currentStreakSeconds >= 0
  /\ Called => /\ status.totalUpSeconds >= prevStatus.totalUpSeconds
               /\ status.totalDownSeconds >= prevStatus.totalDownSeconds
  /\ \A i \in 1..Len(status.downtimeIncidents) :
       status.downtimeIncidents[i].duration >= 0

\* a call dated before the previous check of a ledger with a known status
C12_Witness ==
  /\ Called
  /\ prevStatus.lastStatus = "online"
  /\ call.now < getTime(prevStatus.lastChecked)
  /\ status.totalUpSeconds = prevStatus.totalUpSeconds
  /\ status.totalUpSeconds > 0

\* C13: whatever the order of the timestamps, totalUpSeconds +
\* totalDownSeconds does not exceed the span between the earliest and the
\* latest now applied so far.
C13_NoTimeInvented ==
  span # NULL => Total(status) <= span[2] - span[1]

\* C14: every call sets lastChecked to now; lastOnline becomes now when the
\* observation is online and stays as it was when it is offline.
C14_LastCheckedLastOnline ==
  Called =>
    /\ status.lastChecked = NowIso
    /\ status.lastOnline
         = IF call.isOnline THEN NowIso ELSE prevStatus.lastOnline

C14_Witness ==
  /\ Called
  /\ ~call.isOnline
  /\ prevStatus.lastOnline # NULL
  /\ prevStatus.lastOnline # NowIso
  /\ status.lastOnline = prevStatus.lastOnline

\* ------------------------------------------------- the node scripts
\* ping_csct.js exists in two versions: "https" (HTTPS GET, part_003) and
\* "net" (TCP connect to port 22, part_002).  A run is one process:
\* main reads status.json, awaits pingHost, applies computeDurations and
\* writes status.json.

\* variant: a later call of resolve replaces the value of the promise
ResolveOverwrites(n, obs) ==
  [n EXCEPT !.settled = TRUE, !.observation = obs, !.resolveCalls = @ + 1]

\* resolve(obs) of the promise pingHost returns: the first call settles it,
\* later calls have no effect
Resolve(n, obs) ==
  IF n.settled
    THEN [n EXCEPT !.resolveCalls = @ + 1]
    ELSE [n EXCEPT !.settled = TRUE, !.observation = obs,
                   !.resolveCalls = @ + 1]

\* (err.message || fallback)
MessageOr(message, fallback) == IF message = "" THEN fallback ELSE message

\* part_003 line 130: the error the HTTPS request is destroyed with
HttpsTimeoutMessage == "Request timed out"

\* part_002 line 706: the error the socket is destroyed with
NetTimeoutMessage == "Connection timed out"

\* variant: online as Response.ok, a status code of 200..299
HttpsOnResponseOk(n, code) ==
  Resolve([n EXCEPT !.answered = TRUE, !.code = <<code>>],
          [online |-> (code >= 200 /\ code < 300), latency |-> NULL,
           error |-> NULL])

\* part_003 lines 121-126: the response callback of the HTTPS probe; code
\* remembers res.statusCode
HttpsOnResponse(n, code) ==
  Resolve([n EXCEPT !.answered = TRUE, !.code = <<code>>],
          [online |-> (code >= 200 /\ code < 500), latency |-> NULL,
           error |-> NULL])

\* part_003 lines 129-131: the timeout handler of the HTTPS probe; destroying
\* the request with an error makes it emit 'error'
HttpsOnTimeout(n) ==
  [n EXCEPT !.timedOut = TRUE, !.destroyed = TRUE,
            !.errorQueued = <<HttpsTimeoutMessage>>]

\* part_003 lines 133-135: the error handler of the HTTPS probe
HttpsOnError(n, message) ==
  Resolve([n EXCEPT !.destroyed = TRUE, !.errorQueued = NULL],
          [online |-> FALSE, latency |-> NULL,
           error |-> <<MessageOr(message, "network error")>>])

\* part_002 lines 699-703: the connect handler of the TCP probe
NetOnConnect(n, latency) ==
  Resolve([n EXCEPT !.answered = TRUE, !.destroyed = TRUE],
          [online |-> TRUE, latency |-> <<latency>>, error |-> NULL])

\* part_002 lines 705-708: the timeout handler of the TCP probe
NetOnTimeout(n) ==
  Resolve([n EXCEPT !.timedOut = TRUE, !.destroyed = TRUE,
                    !.errorQueued = <<NetTimeoutMessage>>],
          [online |-> FALSE, latency |-> NULL, error |-> <<"timeout">>])

\* part_002 lines 710-712: the error handler of the TCP probe
NetOnError(n, message) ==
  Resolve([n EXCEPT !.destroyed = TRUE, !.errorQueued = NULL],
          [online |-> FALSE, latency |-> NULL,
           error |-> <<MessageOr(message, "connection refused")>>])

\* part_002 lines 725-728: what main adds to the ledger computeDurations
\* returned
NetAnnotate(nextStatus, observation) ==
  Put(IF observation.latency # NULL
        THEN Put(nextStatus, "latency", observation.latency)
        ELSE nextStatus,
      "portTest", [port |-> 22, succeeded |-> observation.online])

\* the ledger main writes: part_003 lines 146-148, part_002 lines 723-730
Written(program, nextStatus, observation) ==
  IF program = "net" THEN NetAnnotate(nextStatus, observation)
  ELSE nextStatus

\* main, up to the await: now = new Date(), prevStatus = readStatusFile(),
\* pingHost() is called
NodeStart ==
  /\ node.pc = "idle"
  /\ node.cycles < MaxCycles
  /\ \E program \in {"https", "net"}, d \in RunSteps :
       /\ node.cycles > 0 => program = node.program
       /\ node' = [IdleNode EXCEPT !.program = program, !.pc = "probing",
                                   !.now = wallClock + d,
                                   !.prevStatus = status,
                                   !.cycles = node.cycles]
       /\ wallClock' = wallClock + d
  /\ UNCHANGED <<status, prevStatus, call, firstNow, sumDeltas, allIncidents,
                 ordered, span, returned, argAfter, whole>>
  /\ UNCHANGED <<exploreVars, store, page, probe, server>>

\* the process is alive: main awaits the probe or has written the ledger
Alive == node.pc \in {"probing", "written"}

\* a response arrives (HTTPS) or the connection is made (TCP)
NodeAnswer ==
  /\ Alive
  /\ ~node.destroyed
  /\ ~node.answered
  /\ \/ /\ node.program = "https"
        /\ \E code \in Codes : node' = HttpsOnResponse(node, code)
     \/ /\ node.program = "net"
        /\ \E latency \in Latencies : node' = NetOnConnect(node, latency)
  /\ UNCHANGED <<engineVars, exploreVars, store, page, probe, server>>

\* TIMEOUT_MS pass without activity on the socket
NodeTimeout ==
  /\ Alive
  /\ ~node.destroyed
  /\ ~node.answered
  /\ ~node.timedOut
  /\ node' = IF node.program = "https" THEN HttpsOnTimeout(node)
             ELSE NetOnTimeout(node)
  /\ UNCHANGED <<engineVars, exploreVars, store, page, probe, server>>

\* an 'error' event: a network failure, or the error the request or socket
\* was destroyed with
NodeError ==
  /\ Alive
  /\ \/ /\ node.errorQueued # NULL
        /\ node' = IF node.program = "https"
                     THEN HttpsOnError(node, node.errorQueued[1])
                     ELSE NetOnError(node, node.errorQueued[1])
     \/ /\ node.errorQueued = NULL
        /\ ~node.destroyed
        /\ ~node.answered
        /\ \E message \in Messages :
             node' = IF node.program = "https"
                       THEN HttpsOnError(node, message)
                       ELSE NetOnError(node, message)
  /\ UNCHANGED <<engineVars, exploreVars, store, page, probe, server>>

\* main after the await: computeDurations, annotations, writeStatusFile
NodeContinue ==
  /\ node.pc = "probing"
  /\ node.settled
  /\ \E tick \in Ticks :
       LET isOnline == node.observation.online
           nextStatus == computeDurations(node.prevStatus, node.now, isOnline,
                                          wallClock + tick)
       IN /\ returned' = nextStatus
          /\ argAfter' = ArgumentAfter(node.prevStatus, nextStatus)
          /\ prevStatus' = node.prevStatus
          /\ call' = [now |-> node.now, isOnline |-> isOnline,
                      deltaSeconds |-> DeltaSeconds(node.prevStatus, node.now)]
          /\ status' = Written(node.program, nextStatus, node.observation)
          /\ wallClock' = wallClock + tick
  /\ node' = [node EXCEPT !.pc = "written", !.cycles = @ + 1]
  /\ UNCHANGED <<firstNow, sumDeltas, allIncidents, ordered, span, whole>>
  /\ UNCHANGED <<exploreVars, store, page, probe, server>>

\* main after the await when fs.writeFileSync throws (part_003 lines 38-40
\* and 148, part_002 lines 618-620 and 730): nothing catches it in main, the
\* promise of main rejects and the handler of lines 165-168 calls
\* process.exit(1); status.json keeps what it had
NodeWriteFails ==
  /\ node.pc = "probing"
  /\ node.settled
  /\ node' = [node EXCEPT !.pc = "exit1", !.cycles = @ + 1]
  /\ UNCHANGED <<engineVars, exploreVars, store, page, probe, server>>

\* the process ends
NodeExit ==
  /\ node.pc \in {"written", "exit1"}
  /\ node' = [node EXCEPT !.pc = "idle"]
  /\ UNCHANGED <<engineVars, exploreVars, store, page, probe, server>>

InitNode == Init

NextNode ==
  \/ NodeStart
  \/ NodeAnswer
  \/ NodeTimeout
  \/ NodeError
  \/ NodeContinue
  \/ NodeWriteFails
  \/ NodeExit

SpecNode == InitNode /\ [][NextNode]_vars

\* a run of main has written the ledger
NodeWrote == node.pc = "written"

\* C15: after a completed cycle the stored ledger has a latency only if the
\* cycle's observation was online, and an error only if it was offline.
C15_LatencyErrorMatchObservation ==
  NodeWrote =>
    /\ Get(status, "latency") # NULL => node.observation.online
    /\ Get(status, "error") # NULL => ~node.observation.online

\* the fields computeDurations assigns
EngineFields ==
  {"lastOnline", "lastStatus", "lastStatusChange", "currentStreakSeconds",
   "totalUpSeconds", "totalDownSeconds", "lastChecked", "downtimeIncidents",
   "totalOutages"}

C20_TimeoutObservation ==
  /\ node.settled => node.resolveCalls >= 1
  /\ (node.settled /\ node.timedOut /\ ~node.answered) =>
       /\ ~node.observation.online
       /\ node.observation.error = <<"timeout">>

\* ------------------------------------------- the ledger found in the store
\* What a run of ping_csct.js may find in status.json: nothing, text that is
\* not JSON, JSON that is not a ledger, a ledger of the earlier format, a
\* ledger with damaged fields, or a ledger written by an earlier run.

\* a ledger without counters, incident list and outage count
SparseOffline ==
  [lastOnline |-> NULL, lastStatus |-> "offline",
   lastStatusChange |-> toISOString(T0), lastChecked |-> toISOString(T0)]

\* a ledger whose lastChecked is not a date
BadLastChecked ==
  [DefaultStatus EXCEPT !.lastStatus = "online",
                        !.lastStatusChange = toISOString(T0),
                        !.lastOnline = toISOString(T0),
                        !.lastChecked = Unparseable,
                        !.currentStreakSeconds = 700,
                        !.totalUpSeconds = 700]

\* an offline ledger whose lastStatusChange is not a date
BadLastStatusChange ==
  [DefaultStatus EXCEPT !.lastStatus = "offline",
                        !.lastStatusChange = Unparseable,
                        !.lastChecked = toISOString(T0)]

\* part_003 lines 211-249 applied to the default of lines 195-203: the
\* ledger the earlier ping_csct.js wrote after finding the host down at T0
LegacyOffline ==
  [LegacyDefault EXCEPT !.lastStatus = "offline",
                        !.lastStatusChange = toISOString(T0),
                        !.lastChecked = toISOString(T0)]

\* the ledger the earlier ping_csct.js wrote after finding the host up at
\* T0 - PrefixStep and again at T0
LegacyOnline ==
  [LegacyDefault EXCEPT !.lastStatus = "online",
                        !.lastStatusChange = toISOString(T0 - PrefixStep),
                        !.lastOnline = toISOString(T0),
                        !.lastChecked = toISOString(T0),
                        !.currentStreakSeconds = PrefixStep,
                        !.totalUpSeconds = PrefixStep]

RawContents ==
  {[kind |-> "absent", value |-> JsNull],
   [kind |-> "garbage", value |-> JsNull],
   [kind |-> "json", value |-> JsNull],
   [kind |-> "json", value |-> JsObject(DefaultStatus)],
   [kind |-> "json", value |-> JsObject(SparseOffline)],
   [kind |-> "json", value |-> JsObject(LegacyDefault)],
   [kind |-> "json", value |-> JsObject(LegacyOffline)],
   [kind |-> "json", value |-> JsObject(LegacyOnline)],
   [kind |-> "json", value |-> JsObject(BadLastChecked)],
   [kind |-> "json", value |-> JsObject(BadLastStatusChange)]}

\* lines 18-36: JSON.parse of the file, the default structure when reading or
\* parsing throws
readStatusFile(raw) ==
  IF raw.kind = "json" THEN raw.value ELSE JsObject(DefaultStatus)

\* lines 43-46: spreading null gives {}, reading prevStatus.lastChecked of
\* null throws a TypeError
Throws(value) == value.type = "null"

\* main (lines 141-148) on the file found; the probe is abstracted to its
\* observation.  When computeDurations throws, main rejects and the process
\* exits with code 1 (lines 165-168) without writing.
FileRun ==
  /\ store.runs < MaxCycles
  /\ \E d \in RunSteps, isOnline \in BOOLEAN, tick \in Ticks :
       LET value == readStatusFile(store.raw)
           now == wallClock + d
           nextStatus == computeDurations(value.fields, now, isOnline,
                                          now + tick)
       IN /\ wallClock' = now + tick
          /\ IF Throws(value)
               THEN store' = [store EXCEPT !.pc = "raised",
                                           !.prevStatus = value,
                                           !.now = now,
                                           !.isOnline = isOnline,
                                           !.runs = @ + 1]
               ELSE store' =
                      [raw |-> [kind |-> "json",
                                value |-> JsObject(nextStatus)],
                       pc |-> "returned",
                       prevStatus |-> value,
                       now |-> now,
                       isOnline |-> isOnline,
                       deltaSeconds |-> DeltaSeconds(value.fields, now),
                       recorded |-> RecordsIncident(value.fields, now,
                                                    isOnline),
                       runs |-> store.runs + 1]
  /\ UNCHANGED <<status, prevStatus, call, firstNow, sumDeltas, allIncidents,
                 ordered, span, returned, argAfter, whole>>
  /\ UNCHANGED <<exploreVars, node, page, probe, server>>

InitStore ==
  /\ status = Fresh.status
  /\ prevStatus = Fresh.prevStatus
  /\ call = Fresh.call
  /\ firstNow = Fresh.firstNow
  /\ sumDeltas = Fresh.sumDeltas
  /\ allIncidents = Fresh.allIncidents
  /\ ordered = Fresh.ordered
  /\ wallClock = Fresh.wallClock
  /\ span = Fresh.span
  /\ returned = Fresh.returned
  /\ argAfter = Fresh.argAfter
  /\ whole = Fresh.whole
  /\ runs = 0
  /\ remaining = MaxCalls
  /\ node = IdleNode
  /\ server = IdleServer
  /\ probe = IdleProbe
  /\ page = IdlePage
  /\ \E raw \in RawContents : store = [IdleStore EXCEPT !.raw = raw]

NextStore == FileRun

SpecStore == InitStore /\ [][NextStore]_vars

\* the ledger the last run wrote
StoredLedger == store.raw.value.fields

\* C17: computeDurations returns a ledger, without raising, for whatever the
\* store returned: missing numeric fields count as 0, an absent or
\* unparseable lastChecked gives a delta of 0, an unparseable
\* lastStatusChange records no incident.
C17_EngineTotal ==
  store.runs > 0 =>
    /\ store.pc = "returned"
    /\ OrZero(StoredLedger, "totalUpSeconds")
         >= OrZero(store.prevStatus.fields, "totalUpSeconds")
    /\ OrZero(StoredLedger, "totalDownSeconds")
         >= OrZero(store.prevStatus.fields, "totalDownSeconds")
    /\ StoredLedger.currentStreakSeconds >= 0
    /\ (Get(store.prevStatus.fields, "lastChecked") \in {NULL, Unparseable})
         => store.deltaSeconds = 0
    /\ (Get(store.prevStatus.fields, "lastStatusChange") = Unparseable)
         => /\ ~store.recorded
            /\ StoredLedger.totalOutages
                 = OrZero(store.prevStatus.fields, "totalOutages")

\* ------------------------------------------------------------ the pages
\* Two front-ends keep the ledger in localStorage: "static"
\* (is-csct.status.js: HEAD request to the site, refresh button, 60 s timer,
\* engine without incidents) and "port22" (part_002 lines 85-566: /test
\* endpoint, 15 min timer, engine with incidents) and "snapshot" (part_001
\* lines 85-632: status.json fetched on load, simulated probe, 15 min timer,
\* engine with incidents).  A tab runs one of them.
Pages == {"static", "port22", "snapshot"}

\* getDefaultStatus: is-csct.status.js lines 39-49, part_002 lines 128-140
getDefaultStatus(kind) ==
  IF kind = "static" THEN LegacyDefault ELSE DefaultStatus

\* getStoredStatus: the parsed item, the default structure when there is none
getStoredStatus(p) ==
  IF p.item = NULL THEN getDefaultStatus(p.kind) ELSE p.item[1]

\* is-csct.status.js lines 141-179: computeDurations without incidents
computeDurationsLegacy(prev, now, isOnline) ==
  LET deltaSeconds == DeltaSeconds(prev, now)
      accumulated == Accumulate(prev, prev, deltaSeconds)
      changed ==
        IF StatusChanged(prev, isOnline)
          THEN Put(Put(Put(accumulated, "lastStatus", NewStatus(isOnline)),
                       "lastStatusChange", toISOString(now)),
                   "currentStreakSeconds", 0)
          ELSE Put(accumulated, "currentStreakSeconds",
                   GrownStreak(prev, deltaSeconds))
  IN Put(LastOnlineAfter(changed, now, isOnline), "lastChecked",
         toISOString(now))

\* this.computeDurations of the page
PageEngine(kind, prev, now, isOnline, dateNow) ==
  IF kind = "static" THEN computeDurationsLegacy(prev, now, isOnline)
  ELSE computeDurations(prev, now, isOnline, dateNow)

\* part_001 line 280: the simulated latency is a random integer of 127..3214
SimulatedLatencies == {127, 3214}

\* what the awaited probe can give.  static: fetch resolves, is aborted
\* after 5 s (AbortError) or rejects with a network error.  port22:
\* testTcpConnection returns the result of /test, success or not.
\* snapshot: testTcpConnection (part_001 lines 277-288) makes no request and
\* returns success.
PageOutcomes(kind) ==
  IF kind = "static"
    THEN {[success |-> TRUE, latency |-> l, error |-> <<>>] : l \in Latencies}
         \cup {[success |-> FALSE, latency |-> 0, error |-> <<"timeout">>],
               [success |-> FALSE, latency |-> 0,
                error |-> <<"connection failed">>]}
  ELSE IF kind = "port22"
    THEN {[success |-> TRUE, latency |-> l, error |-> <<>>] : l \in Latencies}
         \cup {[success |-> FALSE, latency |-> 0,
                error |-> <<"Port 22 test failed: ", "timeout">>]}
  ELSE {[success |-> TRUE, latency |-> l, error |-> <<>>] :
          l \in SimulatedLatencies}

\* part_002 line 491: updateDowntimeIncidents calls this.formatDateTime, which
\* the class does not define
RenderError == <<"this.formatDateTime is not a function">>

\* is-csct.status.js lines 123-124, part_002 lines 196-198: the ledger of the
\* try branch
OnlineLedger(kind, c, outcome, dateNow) ==
  LET newStatus == Put(PageEngine(kind, c.prevStatus, c.now, TRUE, dateNow),
                       "latency", <<outcome.latency>>)
  IN IF kind = "static" THEN newStatus
     ELSE Put(newStatus, "portTest", [port |-> 22, succeeded |-> TRUE])

\* is-csct.status.js lines 131-134, part_002 lines 208-212: the ledger of
\* the catch branch; error is the message of whatever was caught
OfflineLedger(kind, c, error, dateNow) ==
  LET newStatus ==
        Put(Put(PageEngine(kind, c.prevStatus, c.now, FALSE, dateNow),
                "latency", NULL),
            "error", error)
  IN IF kind = "static" THEN newStatus
     ELSE Put(newStatus, "portTest", [port |-> 22, succeeded |-> FALSE])

\* does updateUI(status) throw: part_002 lines 471-499 reach the undefined
\* formatDateTime when the page has the incident section and the list is not
\* empty; nothing in is-csct.status.js lines 181-252 throws
UiThrows(p, ledger) ==
  /\ p.kind = "port22"
  /\ p.hasSection
  /\ Len(OrEmpty(ledger, "downtimeIncidents")) > 0

\* checkServerStatus after the await (is-csct.status.js lines 117-138,
\* part_002 lines 193-217): the ledgers saved, in order, and whether the call
\* ends by throwing.  An exception of updateUI in the try branch is caught by
\* the same catch as a failed probe.
AfterProbe(p, c, outcome, dateNow) ==
  LET online == OnlineLedger(p.kind, c, outcome, dateNow)
      caught == IF outcome.success THEN RenderError ELSE outcome.error
      offline == OfflineLedger(p.kind, c, caught, dateNow)
  IN IF outcome.success /\ ~UiThrows(p, online)
       THEN [saves |-> <<online>>, rejected |-> FALSE]
     ELSE IF outcome.success
       THEN [saves |-> <<online, offline>>, rejected |-> UiThrows(p, offline)]
     ELSE [saves |-> <<offline>>, rejected |-> UiThrows(p, offline)]

\* checkServerStatus up to the await: now = new Date(), prevStatus =
\* getStoredStatus(), the probe is started
Begin(p, trigger, now) ==
  [p EXCEPT !.cycles[trigger] =
              [pc |-> "awaiting", now |-> now, prevStatus |-> getStoredStatus(p)],
            !.started = @ + 1]

\* checkServerStatus from the settled probe to its end: the last ledger
\* saved stays in localStorage
Finish(p, trigger, outcome, dateNow) ==
  LET c == p.cycles[trigger]
      done == AfterProbe(p, c, outcome, dateNow)
      other == IF trigger = "timer" THEN "refresh" ELSE "timer"
  IN [p EXCEPT
        !.cycles[trigger] = NoCycle,
        !.item = <<done.saves[Len(done.saves)]>>,
        !.completed = @ + 1,
        !.last = [trigger |-> trigger,
                  succeeded |-> outcome.success,
                  applied |-> Len(done.saves),
                  saved |-> Len(done.saves),
                  rejected |-> done.rejected,
                  overlapped |-> p.cycles[other].pc = "awaiting",
                  loaded |-> c.prevStatus,
                  before |-> getStoredStatus(p),
                  ledger |-> done.saves[Len(done.saves)]]]

\* a call of checkServerStatus as the event loop runs it.  The simulated
\* probe of part_001 is an async function that returns at once, so the rest
\* of checkServerStatus runs in the microtasks of the same task; the other
\* pages await a network request.
Check(p, trigger, now, outcome, dateNow) ==
  IF p.kind = "snapshot"
    THEN Finish(Begin(p, trigger, now), trigger, outcome, dateNow)
    ELSE Begin(p, trigger, now)

\* new CSCTStatus(): init.  port22 (part_002 lines 102-111) first renders the
\* stored ledger, and an exception there ends the constructor before the
\* timer is set.  snapshot (part_001 lines 106-119) calls the asynchronous
\* loadStoredStatus, which starts the request for status.json and returns.
\* All then start the first cycle.
PageOpen ==
  /\ page.pc = "loading"
  /\ \E outcome \in PageOutcomes(page.kind) :
       IF UiThrows(page, getStoredStatus(page))
         THEN page' = [page EXCEPT !.pc = "crashed"]
         ELSE page' =
                [Check(page, "timer", wallClock, outcome, wallClock)
                   EXCEPT !.pc = "open",
                          !.snapshot = IF page.kind = "snapshot"
                                         THEN "pending" ELSE "none"]
  /\ UNCHANGED <<engineVars, exploreVars, node, store, probe, server>>

\* the interval fires (is-csct.status.js line 27, part_002 line 107,
\* part_001 line 111).  The probe of the previous timer cycle has settled by
\* then: 5 s abort against a 60 s period.
TimerFires ==
  /\ page.pc = "open"
  /\ page.started < MaxCycles
  /\ page.cycles.timer.pc = "idle"
  /\ \E d \in RunSteps, outcome \in PageOutcomes(page.kind) :
       /\ wallClock' = wallClock + d
       /\ page' = Check(page, "timer", wallClock + d, outcome, wallClock + d)
  /\ UNCHANGED <<status, prevStatus, call, firstNow, sumDeltas, allIncidents,
                 ordered, span, returned, argAfter, whole>>
  /\ UNCHANGED <<exploreVars, node, store, probe, server>>

\* a click on the refresh button (is-csct.status.js lines 24, 64-81); the
\* button is disabled while the cycle it started runs.  part_002 and
\* part_001 never wire handleRefresh to anything.
RefreshClicked ==
  /\ page.pc = "open"
  /\ page.kind = "static"
  /\ page.started < MaxCycles
  /\ page.cycles.refresh.pc = "idle"
  /\ \E d \in RunSteps :
       /\ wallClock' = wallClock + d
       /\ page' = Begin(page, "refresh", wallClock + d)
  /\ UNCHANGED <<status, prevStatus, call, firstNow, sumDeltas, allIncidents,
                 ordered, span, returned, argAfter, whole>>
  /\ UNCHANGED <<exploreVars, node, store, probe, server>>

\* the probe of a cycle settles and checkServerStatus runs to its end
ProbeSettles ==
  /\ \E trigger \in {"timer", "refresh"}, tick \in Ticks :
       /\ page.cycles[trigger].pc = "awaiting"
       /\ \E outcome \in PageOutcomes(page.kind) :
            page' = Finish(page, trigger, outcome, wallClock + tick)
       /\ wallClock' = wallClock + tick
  /\ UNCHANGED <<status, prevStatus, call, firstNow, sumDeltas, allIncidents,
                 ordered, span, returned, argAfter, whole>>
  /\ UNCHANGED <<exploreVars, node, store, probe, server>>

\* status.json as the node script of part_002 (lines 718-730) left it on the
\* server: offline since T0
SnapshotLedger ==
  [DefaultStatus EXCEPT !.lastStatus = "offline",
                        !.lastStatusChange = toISOString(T0),
                        !.lastChecked = toISOString(T0)]
    @@ [portTest |-> [port |-> 22, succeeded |-> FALSE]]

\* loadStoredStatus after the await (part_001 lines 125-139): status.json
\* arrives and is saved into localStorage, or the request fails and the
\* stored ledger is displayed
SnapshotArrives ==
  /\ page.pc = "open"
  /\ page.snapshot = "pending"
  /\ \E ok \in BOOLEAN :
       page' = IF ok
                 THEN [page EXCEPT !.snapshot = "saved",
                                   !.item = <<SnapshotLedger>>]
                 ELSE [page EXCEPT !.snapshot = "failed"]
  /\ UNCHANGED <<engineVars, exploreVars, node, store, probe, server>>

InitPage ==
  /\ status = Fresh.status
  /\ prevStatus = Fresh.prevStatus
  /\ call = Fresh.call
  /\ firstNow = Fresh.firstNow
  /\ sumDeltas = Fresh.sumDeltas
  /\ allIncidents = Fresh.allIncidents
  /\ ordered = Fresh.ordered
  /\ wallClock = Fresh.wallClock
  /\ span = Fresh.span
  /\ returned = Fresh.returned
  /\ argAfter = Fresh.argAfter
  /\ whole = Fresh.whole
  /\ runs = 0
  /\ remaining = MaxCalls
  /\ node = IdleNode
  /\ server = IdleServer
  /\ probe = IdleProbe
  /\ store = IdleStore
  /\ \E kind \in Pages, hasSection \in BOOLEAN :
       page = [IdlePage EXCEPT !.kind = kind, !.hasSection = hasSection]

NextPage ==
  \/ PageOpen
  \/ TimerFires
  \/ RefreshClicked
  \/ ProbeSettles
  \/ SnapshotArrives

SpecPage == InitPage /\ [][NextPage]_vars

\* the ledger in localStorage
StoredItem == getStoredStatus(page)

\* C18: a finished check cycle applied the engine once and saved once, and
\* the saved ledger is online exactly when the probe succeeded, whether or
\* not updateUI threw after the save.
C18_AppliedAndSavedOnce ==
  page.completed > 0 =>
    /\ page.last.applied = 1
    /\ page.last.saved = 1
    /\ (Get(page.last.ledger, "lastStatus") = "online")
         <=> page.last.succeeded

\* C19: no cycle begins while another has loaded and not yet saved, so never
\* are two cycles of a tab awaiting their probes.
C19_OneCycleInFlight ==
  ~(/\ page.cycles.timer.pc = "awaiting"
    /\ page.cycles.refresh.pc = "awaiting")

\* ------------------------------------------------- load, ids and purity
\* C23: load does not raise and what it returns is a ledger record, the
\* default ledger when status.json is absent, unreadable or not a ledger.
C23_LoadReturnsLedger ==
  store.runs > 0 => store.prevStatus.type = "object"

\* C25: no two incidents of a ledger have the same id.
C25_IncidentIdsUnique ==
  \A i, j \in 1..Len(status.downtimeIncidents) :
    i # j => status.downtimeIncidents[i].id # status.downtimeIncidents[j].id

\* C26: the ledger a call returns is determined by prevStatus, now and the
\* observation: the same call made one millisecond of wall clock later
\* returns the same ledger.
C26_PureInPrevNowObservation ==
  Called =>
    computeDurations(prevStatus, call.now, call.isOnline, wallClock + 1)
      = status

\* ------------------------------------------------------ saving and ending
\* C24: a failure to write the ledger does not end the process with an
\* error: the run still reaches its normal end.
C24_SaveFailureNotFatal ==
  node.pc # "exit1"

\* C28: a run that was started has, when it is over, saved a ledger whose
\* lastChecked is the run's now, whatever the probe observed.
C28_CycleSaves ==
  store.runs > 0 =>
    /\ store.pc = "returned"
    /\ Get(StoredLedger, "lastChecked") = toISOString(store.now)

\* C29: cycles that overlap leave what running them one after the other
\* leaves: the ledger a cycle saves was computed from the ledger that was
\* stored when it saved, and the stored lastChecked does not move backwards.
C29_OverlapAsSequential ==
  page.completed > 0 =>
    /\ page.last.loaded = page.last.before
    /\ getTime(page.last.ledger.lastChecked)
         >= (IF Get(page.last.before, "lastChecked") = NULL THEN 0
             ELSE getTime(page.last.before.lastChecked))

\* C30: the load of status.json is over before the first cycle reads the
\* stored ledger.
C30_SnapshotBeforeFirstCycle ==
  page.started > 0 => page.snapshot # "pending"

\* ------------------------------------------------------------ the probers
\* One probe from its start to the settled promise, with the time it takes.
\* Probers: "https" (pingHost of part_003 lines 112-139), "net" (pingHost of
\* part_002 lines 692-716), "endpoint" (testTcpConnection and
\* testHttpsConnection of part_002 lines 221-274), "simulated"
\* (testTcpConnection of part_001 lines 277-294) and "websocket"
\* (testNetConnection of part_000 lines 920-955).  probe.attempt is what
\* became of the connection attempt the observation rests on.
Probers == {"https", "net", "endpoint", "simulated", "websocket"}

\* part_000 lines 926-929: cleanup; closing the socket makes it emit 'close'
WsCleanup(n) == [n EXCEPT !.destroyed = TRUE, !.closeQueued = TRUE]

\* part_000 lines 931-935 and 943
WsOnOpen(n) ==
  Resolve(WsCleanup([n EXCEPT !.answered = TRUE]),
          [online |-> TRUE, latency |-> <<n.elapsed>>, error |-> NULL])

\* part_000 lines 937-941 and 944: the argument is an Event, which has no
\* message
WsOnError(n) ==
  Resolve(WsCleanup(n),
          [online |-> FALSE, latency |-> <<n.elapsed>>, error |-> NULL])

\* part_000 lines 945-949: timeoutId is set once and never reset, so every
\* 'close' calls handleFailure
WsOnClose(n) ==
  Resolve([n EXCEPT !.destroyed = TRUE, !.closeQueued = FALSE],
          [online |-> FALSE, latency |-> <<n.elapsed>>,
           error |-> <<"Connection closed">>])

\* part_000 lines 951-953
WsOnTimeout(n) ==
  Resolve(WsCleanup([n EXCEPT !.timedOut = TRUE]),
          [online |-> FALSE, latency |-> <<n.elapsed>>,
           error |-> <<"Connection timeout">>])

\* part_002 lines 228-233: the JSON the /test endpoint answered is returned
\* as it is
EndpointOnResult(n, result) ==
  Resolve([n EXCEPT !.answered = TRUE],
          [online |-> result.success, latency |-> <<result.latency>>,
           error |-> IF result.success THEN NULL ELSE <<result.message>>])

\* part_002 lines 234-237 and 252-254: the request to /test failed or was
\* answered with an error status; the HTTPS test starts with its own timer
EndpointFallback(n) ==
  [n EXCEPT !.phase = "fallback", !.deadline = <<n.elapsed + TIMEOUT_MS>>]

\* part_002 lines 261-272 and 239-245: then and catch both resolve
\* { isReachable: true, latency }, which testTcpConnection returns as success
testHttpsConnection(n, fetched) ==
  Resolve([n EXCEPT !.answered = fetched],
          [online |-> TRUE,
           latency |-> <<n.elapsed - (n.deadline[1] - TIMEOUT_MS)>>,
           error |-> NULL])

\* the prober is called: the request or socket is created and its timer set
\* (part_003 line 119, part_002 line 697, part_000 line 951); the request to
\* /test has none (part_002 lines 223-226); the simulated prober returns at
\* once (part_001 lines 280-288)
StartProbe(n, kind, latency) ==
  LET begun == [IdleProbe EXCEPT !.kind = kind, !.started = TRUE,
                                 !.probes = n.probes]
  IN IF kind = "simulated"
       THEN Resolve(begun, [online |-> TRUE, latency |-> <<latency>>,
                            error |-> NULL])
     ELSE IF kind = "endpoint" THEN begun
     ELSE [begun EXCEPT !.deadline = <<TIMEOUT_MS>>]

ProbeStart ==
  /\ ~probe.started
  /\ probe.probes < MaxProbes
  /\ \E kind \in Probers, latency \in SimulatedLatencies :
       probe' = StartProbe(probe, kind, latency)
  /\ UNCHANGED <<engineVars, exploreVars, node, store, page, server>>

\* nothing is waiting to be delivered to the prober
Quiet(n) == n.errorQueued = NULL /\ ~n.closeQueued

\* the probe is under way and its socket or request is open
Open(n) == n.started /\ ~n.settled /\ ~n.destroyed /\ Quiet(n)

\* time passes, up to the next timer
ProbeTime ==
  /\ Open(probe)
  /\ probe.elapsed < MaxElapsed
  /\ probe.deadline # NULL => probe.elapsed < probe.deadline[1]
  /\ \E d \in TimeSteps :
       probe' = [probe EXCEPT !.elapsed =
                   IF probe.deadline # NULL /\ @ + d > probe.deadline[1]
                     THEN probe.deadline[1] ELSE @ + d]
  /\ UNCHANGED <<engineVars, exploreVars, node, store, page, server>>

\* the target accepts: a response (https), 'connect' (net), 'open'
\* (websocket), /test answering success, or the HTTPS fetch resolving
ProbeConnects ==
  /\ Open(probe)
  /\ \E connected \in
          IF probe.kind = "https"
            THEN {HttpsOnResponse(probe, code) : code \in Codes}
          ELSE IF probe.kind = "net"
            THEN {NetOnConnect(probe, probe.elapsed)}
          ELSE IF probe.kind = "websocket" THEN {WsOnOpen(probe)}
          ELSE IF probe.phase = "first"
            THEN {EndpointOnResult(probe,
                    [success |-> TRUE, latency |-> l,
                     message |-> "TcpTestSucceeded"]) : l \in Latencies}
          ELSE {testHttpsConnection(probe, TRUE)} :
       probe' = [connected EXCEPT !.attempt = "connected"]
  /\ UNCHANGED <<engineVars, exploreVars, node, store, page, server>>

\* the attempt fails before any timer: an 'error' event (https, net,
\* websocket), a 'close' event not preceded by one (websocket), /test
\* answering failure, or the HTTPS fetch rejecting
ProbeFails ==
  /\ Open(probe)
  /\ \E failed \in
          IF probe.kind = "https"
            THEN {HttpsOnError(probe, m) : m \in Messages}
          ELSE IF probe.kind = "net"
            THEN {NetOnError(probe, m) : m \in Messages}
          ELSE IF probe.kind = "websocket"
            THEN {WsOnError(probe), WsOnClose(probe)}
          ELSE IF probe.phase = "first"
            THEN {EndpointOnResult(probe,
                    [success |-> FALSE, latency |-> TIMEOUT_MS,
                     message |-> "Connection timeout"])}
          ELSE {testHttpsConnection(probe, FALSE)} :
       probe' = [failed EXCEPT !.attempt = "failed"]
  /\ UNCHANGED <<engineVars, exploreVars, node, store, page, server>>

\* the /test endpoint cannot be reached or answers with an error status
ProbeFallback ==
  /\ Open(probe)
  /\ probe.kind = "endpoint"
  /\ probe.phase = "first"
  /\ probe' = EndpointFallback(probe)
  /\ UNCHANGED <<engineVars, exploreVars, node, store, page, server>>

\* the timer of the prober fires; for the endpoint prober it aborts the
\* HTTPS fetch, which then rejects (part_002 lines 254, 267-272)
ProbeTimer ==
  /\ Open(probe)
  /\ ~probe.timedOut
  /\ probe.deadline # NULL
  /\ probe.elapsed = probe.deadline[1]
  /\ LET fired ==
           IF probe.kind = "https" THEN HttpsOnTimeout(probe)
           ELSE IF probe.kind = "net" THEN NetOnTimeout(probe)
           ELSE IF probe.kind = "websocket" THEN WsOnTimeout(probe)
           ELSE testHttpsConnection([probe EXCEPT !.timedOut = TRUE], FALSE)
     IN probe' = [fired EXCEPT !.attempt = "failed"]
  /\ UNCHANGED <<engineVars, exploreVars, node, store, page, server>>

\* an event that an earlier handler caused is delivered: the 'error' of a
\* request or socket destroyed with an error, the 'close' of a closed
\* WebSocket
ProbeQueued ==
  /\ probe.started
  /\ ~Quiet(probe)
  /\ probe' = IF probe.kind = "https"
                THEN HttpsOnError(probe, probe.errorQueued[1])
              ELSE IF probe.kind = "net"
                THEN NetOnError(probe, probe.errorQueued[1])
              ELSE WsOnClose(probe)
  /\ UNCHANGED <<engineVars, exploreVars, node, store, page, server>>

\* the caller has its observation; the next probe can start
ProbeReset ==
  /\ probe.started
  /\ probe.settled
  /\ Quiet(probe)
  /\ probe' = [IdleProbe EXCEPT !.probes = probe.probes + 1]
  /\ UNCHANGED <<engineVars, exploreVars, node, store, page, server>>

InitProbe ==
  /\ status = Fresh.status
  /\ prevStatus = Fresh.prevStatus
  /\ call = Fresh.call
  /\ firstNow = Fresh.firstNow
  /\ sumDeltas = Fresh.sumDeltas
  /\ allIncidents = Fresh.allIncidents
  /\ ordered = Fresh.ordered
  /\ wallClock = Fresh.wallClock
  /\ span = Fresh.span
  /\ returned = Fresh.returned
  /\ argAfter = Fresh.argAfter
  /\ whole = Fresh.whole
  /\ runs = 0
  /\ remaining = MaxCalls
  /\ HostsIdle

NextProbe ==
  \/ ProbeStart
  \/ ProbeTime
  \/ ProbeConnects
  \/ ProbeFails
  \/ ProbeFallback
  \/ ProbeTimer
  \/ ProbeQueued
  \/ ProbeReset

SpecProbe == InitProbe /\ [][NextProbe]_vars

\* C21: an observation that rests on a failed connection attempt is
\* online = false.
C21_FailureIsOffline ==
  (probe.settled /\ probe.attempt = "failed") => ~probe.observation.online

\* C22: a probe that is still pending was started at most TIMEOUT_MS ago.
C22_SettledByTimeout ==
  (probe.started /\ ~probe.settled) => probe.elapsed <= TIMEOUT_MS

\* ------------------------------------------- the test-connection server
\* part_000 lines 1-93 (lines 95-187 are a copy with other messages): an
\* HTTP server that probes port 22 of the target for each GET /test and
\* answers with the result.  Requests are handled concurrently: each has its
\* own socket and promise.
Methods == {"GET", "OPTIONS", "POST"}

Urls == {"/test", "/"}

\* variant: the path is looked at before the method
RouteByPath(method, url) ==
  IF url = "/test" THEN "test"
  ELSE IF method = "OPTIONS" THEN "preflight"
  ELSE "notfound"

\* part_000 lines 67-86: the branch the request handler takes
Route(method, url) ==
  IF method = "OPTIONS" THEN "preflight"
  ELSE IF url = "/test" /\ method = "GET" THEN "test"
  ELSE "notfound"

\* the value of a promise of testNetConnection that is pending
NoResult == [success |-> FALSE, latency |-> 0, message |-> ""]

\* part_000 lines 61-75 and 83-86: the request handler up to res.end or to
\* the await of testNetConnection, which creates the socket (lines 14-19, 56)
Handle(method, url) ==
  LET route == Route(method, url)
      request == [method |-> method, url |-> url, pc |-> "answered",
                  code |-> 0, body |-> NULL, probes |-> 0, settled |-> FALSE,
                  observation |-> NoResult, resolveCalls |-> 0,
                  destroyed |-> FALSE]
  IN IF route = "preflight" THEN [request EXCEPT !.code = 200]
     ELSE IF route = "test"
       THEN [request EXCEPT !.pc = "probing", !.probes = 1]
     ELSE [request EXCEPT !.code = 404,
                          !.body = <<[error |-> "Not found"]>>]

\* part_000 lines 21-31
ServerOnConnect(r, latency) ==
  Resolve([r EXCEPT !.destroyed = TRUE],
          [success |-> TRUE, latency |-> latency,
           message |-> "TcpTestSucceeded"])

\* part_000 lines 33-43: the socket is destroyed without an error, so no
\* 'error' event follows
ServerOnTimeout(r) ==
  Resolve([r EXCEPT !.destroyed = TRUE],
          [success |-> FALSE, latency |-> TIMEOUT_MS,
           message |-> "Connection timeout"])

\* part_000 lines 45-54
ServerOnError(r, latency, message) ==
  Resolve([r EXCEPT !.destroyed = TRUE],
          [success |-> FALSE, latency |-> latency, message |-> message])

\* part_000 lines 75-78: the handler after the await
Answer(r) ==
  [r EXCEPT !.pc = "answered", !.code = 200, !.body = <<r.observation>>]

\* a request arrives and the handler runs
ServerReceives ==
  /\ Len(server.requests) < MaxRequests
  /\ \E method \in Methods, url \in Urls :
       server' = [server EXCEPT
                    !.requests = Append(@, Handle(method, url))]
  /\ UNCHANGED <<engineVars, exploreVars, node, store, page, probe>>

\* the requests whose socket is open
Probing == {i \in 1..Len(server.requests) :
              /\ server.requests[i].pc = "probing"
              /\ ~server.requests[i].destroyed}

\* port 22 of the target accepts the connection of a request
ServerConnects ==
  /\ \E i \in Probing, latency \in Latencies :
       server' = [server EXCEPT !.requests[i] =
                    Answer(ServerOnConnect(@, latency))]
  /\ UNCHANGED <<engineVars, exploreVars, node, store, page, probe>>

\* 5000 ms pass without the connection of a request being made
ServerTimesOut ==
  /\ \E i \in Probing :
       server' = [server EXCEPT !.requests[i] = Answer(ServerOnTimeout(@))]
  /\ UNCHANGED <<engineVars, exploreVars, node, store, page, probe>>

\* the connection of a request fails
ServerErrors ==
  /\ \E i \in Probing, latency \in Latencies, message \in Messages :
       server' = [server EXCEPT !.requests[i] =
                    Answer(ServerOnError(@, latency, message))]
  /\ UNCHANGED <<engineVars, exploreVars, node, store, page, probe>>

InitServer == InitProbe

NextServer ==
  \/ ServerReceives
  \/ ServerConnects
  \/ ServerTimesOut
  \/ ServerErrors

SpecServer == InitServer /\ [][NextServer]_vars

\* C27: a GET /test makes one probe and is answered 200 with the result of
\* that probe, successful or not; an OPTIONS request is answered 200 and
\* anything else 404, both without a probe.
C27_OneProbePerTest ==
  \A i \in 1..Len(server.requests) :
    LET r == server.requests[i]
    IN IF r.method = "OPTIONS"
         THEN r.pc = "answered" /\ r.code = 200 /\ r.probes = 0
       ELSE IF r.method = "GET" /\ r.url = "/test"
         THEN /\ r.probes = 1
              /\ r.pc = "answered" =>
                   /\ r.code = 200
                   /\ r.resolveCalls = 1
                   /\ r.body = <<r.observation>>
       ELSE r.pc = "answered" /\ r.code = 404 /\ r.probes = 0

\* a failed probe answered 200 next to an OPTIONS request for /test
C27_Witness ==
  \E i, j \in 1..Len(server.requests) :
    /\ server.requests[i].method = "GET"
    /\ server.requests[i].url = "/test"
    /\ server.requests[i].pc = "answered"
    /\ ~server.requests[i].body[1].success
    /\ server.requests[j].method = "OPTIONS"
    /\ server.requests[j].url = "/test"

\* ------------------------------------------------- invariants of the ledger
\* part_002 lines 425-427, updateCurrentStreakRealTime: the streak shown
\* between two checks, in thousandths of a second, at the time `now`
RealTimeStreak(ledger, now) ==
  Max(0, now - getTime(ledger.lastStatusChange))

\* C31: with non-decreasing timestamps, once lastChecked is present,
\* currentStreakSeconds is lastChecked minus lastStatusChange, which is what
\* the page computes as its real-time streak at the time of the check, and
\* lastStatusChange is not later than lastChecked.
C31_StreakIsSinceChange ==
  (ordered /\ status.lastChecked # NULL) =>
    /\ status.lastStatusChange # NULL
    /\ status.currentStreakSeconds
         = getTime(status.lastChecked) - getTime(status.lastStatusChange)
    /\ RealTimeStreak(status, getTime(status.lastChecked))
         = status.currentStreakSeconds
    /\ getTime(status.lastStatusChange) <= getTime(status.lastChecked)

\* a streak that grew over two checks after a change that ended a streak
C31_Witness ==
  /\ ordered
  /\ Called
  /\ ~Changed
  /\ Elapsed > 0
  /\ prevStatus.currentStreakSeconds > 0
  /\ status.currentStreakSeconds > Elapsed
  /\ status.totalOutages > 0

\* sum of the durations of a list of incidents, in seconds
RECURSIVE SumDurations(_)
SumDurations(incidents) ==
  IF incidents = <<>> THEN 0
  ELSE Head(incidents).duration + SumDurations(Tail(incidents))

\* the time the ledger has been offline since its last status change, in ms
OpenOutage ==
  IF status.lastStatus = "offline"
    THEN getTime(status.lastChecked) - getTime(status.lastStatusChange)
    ELSE 0

\* C32: with non-decreasing timestamps that are whole seconds,
\* totalDownSeconds is the sum of the durations of all incidents ever
\* recorded, those dropped from the list included, plus lastChecked minus
\* lastStatusChange when the last status is offline.
C32_DownIsIncidentsPlusOpen ==
  (ordered /\ whole) =>
    status.totalDownSeconds
      = SumDurations(allIncidents) * MsPerSecond + OpenOutage

\* an outage that has lasted over a check, after more than 10 recorded ones
C32_Witness ==
  /\ ordered
  /\ whole
  /\ Called
  /\ Len(allIncidents) > 10
  /\ status.lastStatus = "offline"
  /\ OpenOutage > 0
  /\ status.totalDownSeconds > OpenOutage

\* what C33 says of a ledger returned by a call, `inOrder` telling whether
\* the timestamps so far were non-decreasing
StatusKnown(ledger, inOrder) ==
  /\ ledger.lastStatus \in {"online", "offline"}
  /\ ledger.lastChecked # NULL
  /\ ledger.lastStatusChange # NULL
  /\ inOrder =>
       /\ ledger.lastStatus = "online" =>
            ledger.lastOnline = ledger.lastChecked
       /\ ledger.lastOnline # NULL =>
            getTime(ledger.lastOnline) <= getTime(ledger.lastChecked)

\* C33: after at least one call lastStatus is online or offline, lastChecked
\* and lastStatusChange are present and, with non-decreasing timestamps,
\* lastOnline is lastChecked when the status is online and is never later
\* than lastChecked; so it is for the engine without incidents of
\* is-csct.status.js given the same call.
C33_StatusKnownAfterCall ==
  Called =>
    /\ StatusKnown(status, ordered)
    /\ StatusKnown(computeDurationsLegacy(prevStatus, call.now,
                                          call.isOnline), ordered)

\* an offline ledger that remembers when the host was last seen online
C33_Witness ==
  /\ Called
  /\ ordered
  /\ status.lastStatus = "offline"
  /\ status.lastOnline # NULL
  /\ getTime(status.lastOnline) < getTime(status.lastChecked)
  /\ prevStatus.lastStatus = "offline"

\* ------------------------------------------------- the HTTPS prober
\* a response with this status code counts as the host being up
Reachable(code) == code \in 200..499

\* C34: the promise of the HTTPS pingHost holds online = true if and only if
\* a response arrived with a status code of 200..499; a response with
\* another code gives online = false, and an error or a timeout gives
\* online = false with a non-empty error string.
C34_OnlineIffStatus2xx4xx ==
  (node.program = "https" /\ node.settled) =>
    /\ node.observation.online
         <=> (node.code # NULL /\ Reachable(node.code[1]))
    /\ node.code = NULL =>
         /\ node.observation.error # NULL
         /\ node.observation.error[1] # ""
    /\ node.code # NULL => node.observation.error = NULL

\* a status 499 counted as online in one run, an error without a message
\* reported in the next
C34_Witness ==
  /\ node.program = "https"
  /\ node.settled
  /\ node.code = NULL
  /\ node.observation.error = <<"network error">>
  /\ node.cycles > 0
  /\ status.lastStatus = "online"
  /\ Get(status, "lastOnline") = Get(status, "lastChecked")

\* ------------------------------------- ledgers of the earlier format
\* the ledger lacks both fields the earlier format did not have
EarlierFormat(ledger) ==
  /\ "downtimeIncidents" \notin DOMAIN ledger
  /\ "totalOutages" \notin DOMAIN ledger

\* the same ledger in the current format
Upgraded(ledger) ==
  Put(Put(ledger, "downtimeIncidents", <<>>), "totalOutages", 0)

\* the run found an offline ledger, observed the host up and now is later
\* than lastStatusChange
RunEndsOutage ==
  /\ store.isOnline
  /\ Get(store.prevStatus.fields, "lastStatus") = "offline"
  /\ Get(store.prevStatus.fields, "lastStatusChange") # NULL
  /\ store.now > getTime(store.prevStatus.fields.lastStatusChange)

\* C35: a run that finds a ledger of the earlier format, without
\* downtimeIncidents and totalOutages, writes a ledger with both: one
\* incident and 1 when the run ends an outage, the empty list and 0
\* otherwise; every field is what the run writes when given the same
\* ledger with an empty list and a count of 0.
C35_EarlierFormatUpgraded ==
  (store.pc = "returned" /\ EarlierFormat(store.prevStatus.fields)) =>
    /\ {"downtimeIncidents", "totalOutages"} \subseteq DOMAIN StoredLedger
    /\ Len(StoredLedger.downtimeIncidents) = (IF RunEndsOutage THEN 1 ELSE 0)
    /\ StoredLedger.totalOutages = (IF RunEndsOutage THEN 1 ELSE 0)
    /\ RunEndsOutage =>
         /\ StoredLedger.downtimeIncidents[1].startTime
              = store.prevStatus.fields.lastStatusChange
         /\ StoredLedger.downtimeIncidents[1].endTime
              = toISOString(store.now)
    /\ StoredLedger = computeDurations(Upgraded(store.prevStatus.fields),
                                       store.now, store.isOnline, wallClock)

\* the run after the earlier script had found the host down
C35_Witness ==
  /\ store.pc = "returned"
  /\ store.prevStatus.fields = LegacyOffline
  /\ RunEndsOutage
  /\ StoredLedger.totalOutages = 1
  /\ StoredLedger.totalDownSeconds > 0

\* ------------------------------------------------- the WebSocket prober
\* C36: the promise of the WebSocket testNetConnection is settled by the
\* first of open, error, close and timeout: tcpTestSucceeded is true when
\* that event is open and false otherwise, and events delivered afterwards
\* leave the result as it is.
C36_FirstEventSettles ==
  /\ [](probe.kind = "websocket" =>
          /\ probe.settled <=> probe.attempt # "none"
          /\ probe.settled =>
               (probe.observation.online <=> probe.attempt = "connected"))
  /\ [][(probe.kind = "websocket" /\ probe.settled /\ probe'.started) =>
          /\ probe'.settled
          /\ probe'.observation = probe.observation]_vars

\* the 'close' that cleanup causes after a successful open has been
\* delivered and has called resolve a second time
C36_Witness ==
  /\ probe.kind = "websocket"
  /\ probe.settled
  /\ probe.observation.online
  /\ probe.resolveCalls = 2
  /\ Quiet(probe)

====
